---- MODULE Spec2Model ----
(***************************************************************************)
(* The player history log of src/player-history.c: a growable, capped     *)
(* array of history entries (player->hist) and the artifact bookkeeping   *)
(* layered on it.  Array indices are 0-based in the C code and 1-based    *)
(* here: C's entries[i] is entries[i + 1].                                *)
(***************************************************************************)
EXTENDS Integers, Sequences, FiniteSets, TLC

(* ------------------------------------------------------------------ *)
(* Program constants                                                    *)
(* ------------------------------------------------------------------ *)
HISTORY_BIRTH_SIZE == 10
HISTORY_MAX == 5000
\* history_add_full grows a full list by this many slots.
HISTORY_GROW == 10
\* sizeof(buf) in history_add_artifact; strnfmt keeps at most BUF_SIZE - 1 chars.
BUF_SIZE == 80
\* sizeof(o_name) in history_add_artifact.
O_NAME_SIZE == 80
\* sizeof(history_info.event), the bound my_strcpy truncates to.
EVENT_SIZE == 80
\* The null artifact pointer; a non-null pointer is modelled by its aidx.
NULL == 0

(* ------------------------------------------------------------------ *)
(* Bounds of the model                                                  *)
(* ------------------------------------------------------------------ *)
\* Entries appended on top of a starting log before the model stops growing it.
MaxNew == 2
\* Artifacts 1..NumArtifacts exist.
NumArtifacts == 2
\* Calls of an append-only run past its start.
MaxAppend == 11
\* Entries of a log kept by the artifact calls alone.
MaxTracked == 3

Artifacts == 1..NumArtifacts

(* ------------------------------------------------------------------ *)
(* The flag set of an entry (bitflag type[HIST_SIZE])                   *)
(* ------------------------------------------------------------------ *)
HIST_PLAYER_BIRTH == "PLAYER_BIRTH"
HIST_ARTIFACT_UNKNOWN == "ARTIFACT_UNKNOWN"
HIST_ARTIFACT_KNOWN == "ARTIFACT_KNOWN"
HIST_ARTIFACT_LOST == "ARTIFACT_LOST"

hist_wipe == {}
hist_on(f, flag) == f \cup {flag}
hist_off(f, flag) == f \ {flag}
hist_has(f, flag) == flag \in f
hist_copy(f) == f

(* ------------------------------------------------------------------ *)
(* Strings: a format tag, the artifact named, and a length in chars     *)
(* ------------------------------------------------------------------ *)
Min(a, b) == IF a < b THEN a ELSE b

\* my_strcpy(dst, src, size): copies at most size - 1 characters.
my_strcpy(text, size) == [text EXCEPT !.len = Min(text.len, size - 1)]

\* object_desc(o_name, sizeof(o_name), fake, ...): the artifact's name; its
\* length depends on the artifact and never exceeds O_NAME_SIZE - 1.
object_desc(artifact) ==
    [fmt |-> "%s", arg |-> artifact,
     len |-> Min(10 + 35 * artifact, O_NAME_SIZE - 1)]

\* strnfmt(buf, sizeof(buf), found ? "Found %s" : "Missed %s", o_name)
strnfmt(found, o_name) ==
    [fmt |-> IF found THEN "Found %s" ELSE "Missed %s",
     arg |-> o_name.arg,
     len |-> Min((IF found THEN 6 ELSE 7) + o_name.len, BUF_SIZE - 1)]

(* ------------------------------------------------------------------ *)
(* The store: player->hist                                              *)
(* ------------------------------------------------------------------ *)
\* entries holds the slots in use (0 .. next-1); allocated is entries != NULL.
EmptyStore == [entries |-> <<>>, next |-> 0, length |-> 0, allocated |-> FALSE]

\* player->depth, player->lev and player->total_energy when a call is made.
\* The game moves on between log entries: the model ties the player's progress
\* to the number of entries logged so far.
player(h) ==
    [depth |-> 1 + (h.next % 3), lev |-> 1 + (h.next % 2),
     total_energy |-> 150 + 130 * h.next]

\* A variant that allocates twice the slots asked for.
history_init_double(h, n) ==
    [entries |-> <<>>, next |-> 0, length |-> 2 * n, allocated |-> TRUE]

\* history_init(entries)
history_init(h, n) ==
    [entries |-> <<>>, next |-> 0, length |-> n, allocated |-> TRUE]

\* A variant that empties the list without releasing it.
history_clear_keep(h) ==
    IF ~h.allocated THEN h
    ELSE [entries |-> <<>>, next |-> 0, length |-> h.length, allocated |-> TRUE]

\* history_clear()
history_clear(h) ==
    IF ~h.allocated THEN h
    ELSE [entries |-> <<>>, next |-> 0, length |-> 0, allocated |-> FALSE]

\* A variant without the clamp to HISTORY_MAX.
history_set_num_unclamped(h, num) ==
    IF num <= h.length
    THEN [h |-> h, ret |-> FALSE]
    ELSE [h |-> [h EXCEPT !.length = num], ret |-> TRUE]

\* history_set_num(num)
history_set_num(h, num) ==
    LET n == IF num > HISTORY_MAX THEN HISTORY_MAX ELSE num
    IN  IF n <= h.length
        THEN [h |-> h, ret |-> FALSE]
        ELSE [h |-> [h EXCEPT !.length = n], ret |-> TRUE]

\* history_get_num()
history_get_num(h) == h.next

\* history_get_list(&list)
history_get_list(h) == [list |-> h.entries, ret |-> h.next]

\* size_t i = next; while (i--) if (entries[i].a_idx == artifact->aidx) ...:
\* the scan visits the slots in use from the newest down (k counts the steps)
\* and stops at the first whose a_idx is the artifact's.  The slot found
\* (1-based), or 0 when the loop runs out.
LatestEntryOf(h, artifact) ==
    LET n == h.next
        es == h.entries
        hit(k) == es[n - k].a_idx = artifact
    IN  IF \E k \in 0..(n - 1) : hit(k)
        THEN n - (CHOOSE k \in 0..(n - 1) :
                      hit(k) /\ \A j \in 0..(k - 1) : ~hit(j))
        ELSE 0

\* A variant that sets ARTIFACT_KNOWN without wiping the flags first.
history_know_artifact_nowipe(h, artifact) ==
    LET i == LatestEntryOf(h, artifact)
    IN  IF i = 0 THEN [h |-> h, ret |-> FALSE]
        ELSE [h |-> [h EXCEPT !.entries[i].type =
                                  hist_on(@, HIST_ARTIFACT_KNOWN)],
              ret |-> TRUE]

\* history_know_artifact(artifact)
history_know_artifact(h, artifact) ==
    LET i == LatestEntryOf(h, artifact)
    IN  IF i = 0 THEN [h |-> h, ret |-> FALSE]
        ELSE [h |-> [h EXCEPT !.entries[i].type =
                                  hist_on(hist_wipe, HIST_ARTIFACT_KNOWN)],
              ret |-> TRUE]

\* A variant that puts the new entry in front of the others.
StoreEntry_front(h, e) ==
    [h EXCEPT !.entries = <<e>> \o h.entries, !.next = h.next + 1]

\* The slot history_add_full fills: entries[next], then next++.
StoreEntry(h, e) ==
    [h EXCEPT !.entries = Append(h.entries, e), !.next = h.next + 1]

\* A variant that stores the two levels in each other's field.
history_add_full_swapped(h, type, artifact, dlev, clev, turnno, text) ==
    LET e == [type |-> hist_copy(type), dlev |-> clev, clev |-> dlev,
              a_idx |-> IF artifact # NULL THEN artifact ELSE 0,
              turn |-> turnno, event |-> my_strcpy(text, EVENT_SIZE)]
    IN  IF ~h.allocated
        THEN LET h1 == history_init(h, HISTORY_BIRTH_SIZE)
             IN  [h |-> StoreEntry(h1, e), ret |-> TRUE, slot |-> h1.next]
        ELSE IF h.next = h.length
        THEN LET g == history_set_num(h, h.length + HISTORY_GROW)
             IN  IF ~g.ret THEN [h |-> g.h, ret |-> FALSE, slot |-> -1]
                 ELSE [h |-> StoreEntry(g.h, e), ret |-> TRUE, slot |-> g.h.next]
        ELSE [h |-> StoreEntry(h, e), ret |-> TRUE, slot |-> h.next]

\* A variant that stores into a full list without growing it.
history_add_full_nogrow(h, type, artifact, dlev, clev, turnno, text) ==
    LET e == [type |-> hist_copy(type), dlev |-> dlev, clev |-> clev,
              a_idx |-> IF artifact # NULL THEN artifact ELSE 0,
              turn |-> turnno, event |-> my_strcpy(text, EVENT_SIZE)]
    IN  IF ~h.allocated
        THEN LET h1 == history_init(h, HISTORY_BIRTH_SIZE)
             IN  [h |-> StoreEntry(h1, e), ret |-> TRUE, slot |-> h1.next]
        ELSE [h |-> StoreEntry(h, e), ret |-> TRUE, slot |-> h.next]

\* history_add_full(type, artifact, dlev, clev, turnno, text); slot is the
\* 0-based index written, -1 when nothing was written.
history_add_full(h, type, artifact, dlev, clev, turnno, text) ==
    LET e == [type |-> hist_copy(type), dlev |-> dlev, clev |-> clev,
              a_idx |-> IF artifact # NULL THEN artifact ELSE 0,
              turn |-> turnno, event |-> my_strcpy(text, EVENT_SIZE)]
    IN  IF ~h.allocated
        THEN LET h1 == history_init(h, HISTORY_BIRTH_SIZE)
             IN  [h |-> StoreEntry(h1, e), ret |-> TRUE, slot |-> h1.next]
        ELSE IF h.next = h.length
        THEN LET g == history_set_num(h, h.length + HISTORY_GROW)
             IN  IF ~g.ret THEN [h |-> g.h, ret |-> FALSE, slot |-> -1]
                 ELSE [h |-> StoreEntry(g.h, e), ret |-> TRUE, slot |-> g.h.next]
        ELSE [h |-> StoreEntry(h, e), ret |-> TRUE, slot |-> h.next]

\* history_add(event, type, artifact), reading depth, lev and total_energy
\* from the player.
history_add(h, event, type, artifact) ==
    history_add_full(h, hist_on(hist_wipe, type), artifact, player(h).depth,
                     player(h).lev, player(h).total_energy \div 100, event)

\* A variant in which the newest entry for the artifact alone decides.
history_is_artifact_known_latest(h, artifact) ==
    LET i == LatestEntryOf(h, artifact)
    IN  i # 0 /\ hist_has(h.entries[i].type, HIST_ARTIFACT_KNOWN)

\* history_is_artifact_known(artifact)
history_is_artifact_known(h, artifact) ==
    LET n == h.next
        es == h.entries
    IN  \E k \in 0..(n - 1) :
            /\ hist_has(es[n - k].type, HIST_ARTIFACT_KNOWN)
            /\ es[n - k].a_idx = artifact

\* A variant that counts ARTIFACT_LOST entries too.
history_is_artifact_logged_any(h, artifact) == LatestEntryOf(h, artifact) # 0

\* history_is_artifact_logged(artifact)
history_is_artifact_logged(h, artifact) ==
    LET n == h.next
        es == h.entries
    IN  \E k \in 0..(n - 1) :
            /\ ~hist_has(es[n - k].type, HIST_ARTIFACT_LOST)
            /\ es[n - k].a_idx = artifact

\* A variant that logs an unknown artifact again although it is logged.
history_add_artifact_relog(h, artifact, known, found) ==
    LET buf == strnfmt(found, object_desc(artifact))
    IN  IF known
        THEN IF history_is_artifact_logged(h, artifact)
             THEN [h |-> history_know_artifact(h, artifact).h,
                   ret |-> TRUE, slot |-> -1]
             ELSE LET r == history_add(h, buf, HIST_ARTIFACT_KNOWN, artifact)
                  IN  [h |-> r.h, ret |-> TRUE, slot |-> r.slot]
        ELSE LET type == IF ~found
                         THEN hist_on(hist_on(hist_wipe, HIST_ARTIFACT_UNKNOWN),
                                      HIST_ARTIFACT_LOST)
                         ELSE hist_on(hist_wipe, HIST_ARTIFACT_UNKNOWN)
                 r == history_add_full(h, type, artifact, player(h).depth,
                                       player(h).lev,
                                       player(h).total_energy \div 100, buf)
             IN  [h |-> r.h, ret |-> TRUE, slot |-> r.slot]

\* A variant that always logs a new entry for a known artifact.
history_add_artifact_newentry(h, artifact, known, found) ==
    LET buf == strnfmt(found, object_desc(artifact))
    IN  IF known
        THEN LET r == history_add(h, buf, HIST_ARTIFACT_KNOWN, artifact)
             IN  [h |-> r.h, ret |-> TRUE, slot |-> r.slot]
        ELSE IF ~history_is_artifact_logged(h, artifact)
             THEN LET type == IF ~found
                              THEN hist_on(hist_on(hist_wipe, HIST_ARTIFACT_UNKNOWN),
                                           HIST_ARTIFACT_LOST)
                              ELSE hist_on(hist_wipe, HIST_ARTIFACT_UNKNOWN)
                      r == history_add_full(h, type, artifact, player(h).depth,
                                            player(h).lev,
                                            player(h).total_energy \div 100, buf)
                  IN  [h |-> r.h, ret |-> TRUE, slot |-> r.slot]
             ELSE [h |-> h, ret |-> FALSE, slot |-> -1]

\* A variant that reveals an entry only of an artifact already known.
history_add_artifact_byknown(h, artifact, known, found) ==
    LET buf == strnfmt(found, object_desc(artifact))
    IN  IF known
        THEN IF history_is_artifact_known(h, artifact)
             THEN [h |-> history_know_artifact(h, artifact).h,
                   ret |-> TRUE, slot |-> -1]
             ELSE LET r == history_add(h, buf, HIST_ARTIFACT_KNOWN, artifact)
                  IN  [h |-> r.h, ret |-> TRUE, slot |-> r.slot]
        ELSE IF ~history_is_artifact_logged(h, artifact)
             THEN LET type == IF ~found
                              THEN hist_on(hist_on(hist_wipe, HIST_ARTIFACT_UNKNOWN),
                                           HIST_ARTIFACT_LOST)
                              ELSE hist_on(hist_wipe, HIST_ARTIFACT_UNKNOWN)
                      r == history_add_full(h, type, artifact, player(h).depth,
                                            player(h).lev,
                                            player(h).total_energy \div 100, buf)
                  IN  [h |-> r.h, ret |-> TRUE, slot |-> r.slot]
             ELSE [h |-> h, ret |-> FALSE, slot |-> -1]

\* A variant that marks an unknown artifact ARTIFACT_LOST when it was found.
history_add_artifact_lostflag(h, artifact, known, found) ==
    LET buf == strnfmt(found, object_desc(artifact))
    IN  IF known
        THEN IF history_is_artifact_logged(h, artifact)
             THEN [h |-> history_know_artifact(h, artifact).h,
                   ret |-> TRUE, slot |-> -1]
             ELSE LET r == history_add(h, buf, HIST_ARTIFACT_KNOWN, artifact)
                  IN  [h |-> r.h, ret |-> TRUE, slot |-> r.slot]
        ELSE IF ~history_is_artifact_logged(h, artifact)
             THEN LET type == IF found
                              THEN hist_on(hist_on(hist_wipe, HIST_ARTIFACT_UNKNOWN),
                                           HIST_ARTIFACT_LOST)
                              ELSE hist_on(hist_wipe, HIST_ARTIFACT_UNKNOWN)
                      r == history_add_full(h, type, artifact, player(h).depth,
                                            player(h).lev,
                                            player(h).total_energy \div 100, buf)
                  IN  [h |-> r.h, ret |-> TRUE, slot |-> r.slot]
             ELSE [h |-> h, ret |-> FALSE, slot |-> -1]

\* history_add_artifact(artifact, known, found)
history_add_artifact(h, artifact, known, found) ==
    LET buf == strnfmt(found, object_desc(artifact))
    IN  IF known
        THEN IF history_is_artifact_logged(h, artifact)
             THEN [h |-> history_know_artifact(h, artifact).h,
                   ret |-> TRUE, slot |-> -1]
             ELSE LET r == history_add(h, buf, HIST_ARTIFACT_KNOWN, artifact)
                  IN  [h |-> r.h, ret |-> TRUE, slot |-> r.slot]
        ELSE IF ~history_is_artifact_logged(h, artifact)
             THEN LET type == IF ~found
                              THEN hist_on(hist_on(hist_wipe, HIST_ARTIFACT_UNKNOWN),
                                           HIST_ARTIFACT_LOST)
                              ELSE hist_on(hist_wipe, HIST_ARTIFACT_UNKNOWN)
                      r == history_add_full(h, type, artifact, player(h).depth,
                                            player(h).lev,
                                            player(h).total_energy \div 100, buf)
                  IN  [h |-> r.h, ret |-> TRUE, slot |-> r.slot]
             ELSE [h |-> h, ret |-> FALSE, slot |-> -1]

\* A variant whose scan skips the entries already marked ARTIFACT_LOST.
history_lose_artifact_active(h, artifact) ==
    LET n == h.next
        es == h.entries
        hit(k) == /\ ~hist_has(es[n - k].type, HIST_ARTIFACT_LOST)
                  /\ es[n - k].a_idx = artifact
    IN  IF \E k \in 0..(n - 1) : hit(k)
        THEN LET i == n - (CHOOSE k \in 0..(n - 1) :
                              hit(k) /\ \A j \in 0..(k - 1) : ~hit(j))
             IN  [h |-> [h EXCEPT !.entries[i].type =
                                      hist_on(@, HIST_ARTIFACT_LOST)],
                  ret |-> TRUE, slot |-> -1]
        ELSE LET r == history_add_artifact(h, artifact, FALSE, FALSE)
             IN  [h |-> r.h, ret |-> FALSE, slot |-> r.slot]

\* A variant that wipes the flags of the entry before marking it lost.
history_lose_artifact_wipe(h, artifact) ==
    LET i == LatestEntryOf(h, artifact)
    IN  IF i # 0
        THEN [h |-> [h EXCEPT !.entries[i].type =
                                  hist_on(hist_wipe, HIST_ARTIFACT_LOST)],
              ret |-> TRUE, slot |-> -1]
        ELSE LET r == history_add_artifact(h, artifact, FALSE, FALSE)
             IN  [h |-> r.h, ret |-> FALSE, slot |-> r.slot]

\* A variant that logs a lost artifact without history as found.
history_lose_artifact_found(h, artifact) ==
    LET i == LatestEntryOf(h, artifact)
    IN  IF i # 0
        THEN [h |-> [h EXCEPT !.entries[i].type =
                                  hist_on(@, HIST_ARTIFACT_LOST)],
              ret |-> TRUE, slot |-> -1]
        ELSE LET r == history_add_artifact(h, artifact, FALSE, TRUE)
             IN  [h |-> r.h, ret |-> FALSE, slot |-> r.slot]

\* history_lose_artifact(artifact)
history_lose_artifact(h, artifact) ==
    LET i == LatestEntryOf(h, artifact)
    IN  IF i # 0
        THEN [h |-> [h EXCEPT !.entries[i].type =
                                  hist_on(@, HIST_ARTIFACT_LOST)],
              ret |-> TRUE, slot |-> -1]
        ELSE LET r == history_add_artifact(h, artifact, FALSE, FALSE)
             IN  [h |-> r.h, ret |-> FALSE, slot |-> r.slot]

\* A variant that leaves an unmasked entry with ARTIFACT_KNOWN alone.
history_unmask_unknown_wipe(h) ==
    LET es == h.entries
    IN  [h EXCEPT !.entries = [i \in 1..h.next |->
            IF hist_has(es[i].type, HIST_ARTIFACT_UNKNOWN)
            THEN [es[i] EXCEPT !.type = hist_on(hist_wipe, HIST_ARTIFACT_KNOWN)]
            ELSE es[i]]]

\* A variant that sets ARTIFACT_KNOWN without clearing ARTIFACT_UNKNOWN.
history_unmask_unknown_keep(h) ==
    LET es == h.entries
    IN  [h EXCEPT !.entries = [i \in 1..h.next |->
            IF hist_has(es[i].type, HIST_ARTIFACT_UNKNOWN)
            THEN [es[i] EXCEPT !.type = hist_on(@, HIST_ARTIFACT_KNOWN)]
            ELSE es[i]]]

\* history_unmask_unknown()
history_unmask_unknown(h) ==
    LET es == h.entries
    IN  [h EXCEPT !.entries = [i \in 1..h.next |->
            IF hist_has(es[i].type, HIST_ARTIFACT_UNKNOWN)
            THEN [es[i] EXCEPT !.type =
                     hist_on(hist_off(@, HIST_ARTIFACT_UNKNOWN), HIST_ARTIFACT_KNOWN)]
            ELSE es[i]]]

(* ------------------------------------------------------------------ *)
(* Inputs                                                               *)
(* ------------------------------------------------------------------ *)
\* Arguments of history_add: event, type, artifact.
AddInputs ==
    {[event |-> [fmt |-> "Began the quest", arg |-> 0, len |-> 15],
      type |-> HIST_PLAYER_BIRTH, artifact |-> NULL],
     [event |-> [fmt |-> "Found something", arg |-> 0, len |-> 120],
      type |-> HIST_ARTIFACT_UNKNOWN, artifact |-> 1]}

\* Arguments of history_add_full.
FullInputs ==
    {[type |-> {HIST_PLAYER_BIRTH}, artifact |-> NULL, dlev |-> 0, clev |-> 1,
      turnno |-> 0, text |-> [fmt |-> "Began the quest", arg |-> 0, len |-> 15]],
     [type |-> {HIST_ARTIFACT_KNOWN, HIST_ARTIFACT_LOST}, artifact |-> 1,
      dlev |-> 5, clev |-> 20, turnno |-> 777,
      text |-> [fmt |-> "Replayed", arg |-> 1, len |-> 79]],
     [type |-> {HIST_ARTIFACT_UNKNOWN}, artifact |-> 2, dlev |-> 7, clev |-> 30,
      turnno |-> 900, text |-> [fmt |-> "Replayed", arg |-> 2, len |-> 200]]}

\* The log after n calls history_add_full({HIST_PLAYER_BIRTH}, NULL, 0, 1, 0,
\* "Began the quest"): n equal entries, the list grown 10 slots at a time.
FillerEntry ==
    LET in == CHOOSE x \in FullInputs : x.artifact = NULL
    IN  history_add_full(EmptyStore, in.type, in.artifact, in.dlev, in.clev,
                         in.turnno, in.text).h.entries[1]
Filled(n) ==
    [entries |-> [i \in 1..n |-> FillerEntry], next |-> n,
     length |-> ((n + HISTORY_GROW - 1) \div HISTORY_GROW) * HISTORY_GROW,
     allocated |-> TRUE]

\* Sizes the log starts from: never used, one short of the first growth, and
\* full at the cap.
Starts == {0, HISTORY_BIRTH_SIZE - 1, HISTORY_MAX}

\* The model lets a log grow MaxNew entries past a start.
InBounds(h) == \E p \in Starts : p <= h.next /\ h.next <= p + MaxNew

(* ------------------------------------------------------------------ *)
(* State                                                                *)
(* ------------------------------------------------------------------ *)
VARIABLES
    hist,   \* player->hist
    op,     \* the last call and its arguments
    ret,    \* what the last call returned (FALSE for a void function)
    wrote,  \* 0-based slot the last call wrote an entry to, or -1
    passed  \* the arguments of the history_add_full calls of an append-only run

vars == <<hist, op, ret, wrote, passed>>

Call(name, artifact, known, found) ==
    [name |-> name, artifact |-> artifact, known |-> known, found |-> found]

Init ==
    /\ hist \in {EmptyStore} \cup {Filled(n) : n \in Starts \ {0}}
    /\ op = Call("none", NULL, FALSE, FALSE)
    /\ ret = FALSE
    /\ wrote = -1
    /\ passed = <<>>

Clear ==
    /\ hist' = history_clear(hist)
    /\ op' = Call("history_clear", NULL, FALSE, FALSE)
    /\ ret' = FALSE
    /\ wrote' = -1
    /\ passed' = passed

KnowArtifact(a) ==
    LET r == history_know_artifact(hist, a)
    IN  /\ hist' = r.h
        /\ op' = Call("history_know_artifact", a, FALSE, FALSE)
        /\ ret' = r.ret
        /\ wrote' = -1
        /\ passed' = passed

LoseArtifact(a) ==
    LET r == history_lose_artifact(hist, a)
    IN  /\ InBounds(r.h)
        /\ hist' = r.h
        /\ op' = Call("history_lose_artifact", a, FALSE, FALSE)
        /\ ret' = r.ret
        /\ wrote' = r.slot
        /\ passed' = passed

CallAddFull(in) ==
    LET r == history_add_full(hist, in.type, in.artifact, in.dlev, in.clev,
                              in.turnno, in.text)
    IN  /\ hist' = r.h
        /\ op' = Call("history_add_full", in.artifact, FALSE, FALSE)
        /\ ret' = r.ret
        /\ wrote' = r.slot

AddFull(in) ==
    /\ CallAddFull(in)
    /\ InBounds(hist')
    /\ passed' = passed

Add(in) ==
    LET r == history_add(hist, in.event, in.type, in.artifact)
    IN  /\ InBounds(r.h)
        /\ hist' = r.h
        /\ op' = Call("history_add", in.artifact, FALSE, FALSE)
        /\ ret' = r.ret
        /\ wrote' = r.slot
        /\ passed' = passed

AddArtifact(a, known, found) ==
    LET r == history_add_artifact(hist, a, known, found)
    IN  /\ InBounds(r.h)
        /\ hist' = r.h
        /\ op' = Call("history_add_artifact", a, known, found)
        /\ ret' = r.ret
        /\ wrote' = r.slot
        /\ passed' = passed

UnmaskUnknown ==
    /\ hist' = history_unmask_unknown(hist)
    /\ op' = Call("history_unmask_unknown", NULL, FALSE, FALSE)
    /\ ret' = FALSE
    /\ wrote' = -1
    /\ passed' = passed

IsArtifactKnown(a) ==
    /\ hist' = hist
    /\ op' = Call("history_is_artifact_known", a, FALSE, FALSE)
    /\ ret' = history_is_artifact_known(hist, a)
    /\ wrote' = -1
    /\ passed' = passed

Next ==
    \/ Clear
    \/ \E a \in Artifacts : KnowArtifact(a)
    \/ \E a \in Artifacts : LoseArtifact(a)
    \/ \E in \in FullInputs : AddFull(in)
    \/ \E in \in AddInputs : Add(in)
    \/ \E a \in Artifacts, known \in BOOLEAN, found \in BOOLEAN :
           AddArtifact(a, known, found)
    \/ UnmaskUnknown
    \/ \E a \in Artifacts : IsArtifactKnown(a)

Spec == Init /\ [][Next]_vars

(* ------------------------------------------------------------------ *)
(* Append-only runs: nothing but history_add_full is called             *)
(* ------------------------------------------------------------------ *)
\* A run starts on the empty store, or MaxAppend calls further on, or two
\* calls short of the cap (after that many filler calls); passed holds the
\* arguments of the calls made so far.
FillerInput == CHOOSE x \in FullInputs : x.artifact = NULL
AppendStarts == {0, HISTORY_MAX - 2}

InitAppend ==
    /\ \E n \in AppendStarts :
          /\ hist = IF n = 0 THEN EmptyStore ELSE Filled(n)
          /\ passed = [i \in 1..n |-> FillerInput]
    /\ op = Call("none", NULL, FALSE, FALSE)
    /\ ret = FALSE
    /\ wrote = -1

AppendRun(in) ==
    /\ Len(passed) < HISTORY_MAX
    /\ \E p \in AppendStarts : p <= Len(passed) /\ Len(passed) < p + MaxAppend
    /\ CallAddFull(in)
    /\ passed' = Append(passed, in)

NextAppend == \E in \in FullInputs : AppendRun(in)

SpecAppend == InitAppend /\ [][NextAppend]_vars

(* ------------------------------------------------------------------ *)
(* Artifact tracking alone: a log nothing else has written to           *)
(* ------------------------------------------------------------------ *)
\* From the empty store, only history_add_artifact, history_lose_artifact,
\* history_unmask_unknown and history_clear are called, until the log holds
\* MaxTracked entries.
InitTracker ==
    /\ hist = EmptyStore
    /\ op = Call("none", NULL, FALSE, FALSE)
    /\ ret = FALSE
    /\ wrote = -1
    /\ passed = <<>>

TrackAddArtifact(a, known, found) ==
    LET r == history_add_artifact(hist, a, known, found)
    IN  /\ r.h.next <= MaxTracked
        /\ hist' = r.h
        /\ op' = Call("history_add_artifact", a, known, found)
        /\ ret' = r.ret
        /\ wrote' = r.slot
        /\ passed' = passed

TrackLoseArtifact(a) ==
    LET r == history_lose_artifact(hist, a)
    IN  /\ r.h.next <= MaxTracked
        /\ hist' = r.h
        /\ op' = Call("history_lose_artifact", a, FALSE, FALSE)
        /\ ret' = r.ret
        /\ wrote' = r.slot
        /\ passed' = passed

NextTracker ==
    \/ \E a \in Artifacts, known \in BOOLEAN, found \in BOOLEAN :
           TrackAddArtifact(a, known, found)
    \/ \E a \in Artifacts : TrackLoseArtifact(a)
    \/ UnmaskUnknown
    \/ Clear

SpecTracker == InitTracker /\ [][NextTracker]_vars

(* ------------------------------------------------------------------ *)
(* Vocabulary of the properties                                         *)
(* ------------------------------------------------------------------ *)
\* The slots (1-based) holding an entry for artifact a.
EntriesFor(h, a) == {i \in 1..h.next : h.entries[i].a_idx = a}
\* The most recently appended of them.
Newest(h, a) == CHOOSE i \in EntriesFor(h, a) : \A j \in EntriesFor(h, a) : j <= i
\* Some entry for a does not carry Lost.
Active(h, a) ==
    \E i \in EntriesFor(h, a) : HIST_ARTIFACT_LOST \notin h.entries[i].type
\* The store is at the hard cap and full: no append can be stored.
AtCapAndFull(h) == h.allocated /\ h.next = h.length /\ h.length = HISTORY_MAX
\* h2 is h1 with one more entry in the slot after h1's last.
Appended(h1, h2) ==
    /\ h2.next = h1.next + 1
    /\ Len(h2.entries) = h2.next
    /\ SubSeq(h2.entries, 1, h1.next) = h1.entries
\* h2 is h1 with the flags of slot i set to f and nothing else changed.
Reflagged(h1, h2, i, f) == h2 = [h1 EXCEPT !.entries[i].type = f]

(* ------------------------------------------------------------------ *)
(* C1  history_lose_artifact and entries already lost                   *)
(* ------------------------------------------------------------------ *)
\* The state right after history_lose_artifact(a) appended the first entry
\* for a (it returns false exactly when it found no entry to mark).
FirstLoss(a) ==
    /\ op = Call("history_lose_artifact", a, FALSE, FALSE)
    /\ ret = FALSE
    /\ wrote # -1
    /\ EntriesFor(hist, a) = {wrote + 1}

\* C1 as claimed: history_lose_artifact only marks an entry that does not yet
\* carry Lost; when every entry for the artifact is already Lost (and the
\* store has room) it appends a fresh entry instead, so that two consecutive
\* calls on an artifact with no entry leave two entries for it.
C1_LoseAppendsWhenAllLost ==
    [][\A a \in Artifacts :
         op' = Call("history_lose_artifact", a, FALSE, FALSE) =>
           /\ (EntriesFor(hist, a) # {} /\ ~Active(hist, a) /\ ~AtCapAndFull(hist))
                 => Appended(hist, hist')
           /\ FirstLoss(a) => Cardinality(EntriesFor(hist', a)) = 2]_vars

\* C1 amended: history_lose_artifact marks the newest entry for the artifact
\* whatever its Lost state: if any entry for it exists, it adds Lost to the
\* newest one (keeping its other flags), appends nothing and returns true; it
\* appends only when the log holds no entry for the artifact at all (and then
\* returns false).  Two consecutive calls on an artifact with no entry, with
\* room in the store, leave exactly one entry for it.
C1_LoseMarksNewestOrAppends ==
    [][\A a \in Artifacts :
         op' = Call("history_lose_artifact", a, FALSE, FALSE) =>
           /\ EntriesFor(hist, a) # {} =>
                 /\ ret' = TRUE
                 /\ Reflagged(hist, hist', Newest(hist, a),
                              hist.entries[Newest(hist, a)].type
                                \cup {HIST_ARTIFACT_LOST})
           /\ (EntriesFor(hist, a) = {} /\ ~AtCapAndFull(hist)) =>
                 /\ ret' = FALSE
                 /\ Appended(hist, hist')
           /\ hist'.next # hist.next => EntriesFor(hist, a) = {}
           /\ FirstLoss(a) => Cardinality(EntriesFor(hist', a)) = 1]_vars

\* The second of two consecutive losses has acted: it returned true on the
\* entry the first one appended, and the artifact still has one entry.
C1_Witness ==
    \E a \in Artifacts :
        /\ op = Call("history_lose_artifact", a, FALSE, FALSE)
        /\ ret = TRUE
        /\ Cardinality(EntriesFor(hist, a)) = 1
        /\ hist.entries[Newest(hist, a)].type =
               {HIST_ARTIFACT_UNKNOWN, HIST_ARTIFACT_LOST}
        /\ hist.entries[Newest(hist, a)].event.fmt = "Missed %s"

(* ------------------------------------------------------------------ *)
(* C2  history_is_artifact_known                                        *)
(* ------------------------------------------------------------------ *)
\* Some entry for a carries Known.
KnownSomewhere(h, a) ==
    \E i \in EntriesFor(h, a) : HIST_ARTIFACT_KNOWN \in h.entries[i].type
\* The newest entry for a carries Known.
KnownNewest(h, a) ==
    /\ EntriesFor(h, a) # {}
    /\ HIST_ARTIFACT_KNOWN \in h.entries[Newest(h, a)].type

\* C2 as claimed: history_is_artifact_known(a) is true iff the most recently
\* appended entry for a carries Known; older entries never decide.
C2_KnownIffNewestKnown ==
    \A a \in Artifacts :
        op = Call("history_is_artifact_known", a, FALSE, FALSE) =>
            (ret <=> KnownNewest(hist, a))

\* C2 amended: history_is_artifact_known(a) is true iff some entry for a,
\* the newest or an older one, carries Known.
C2_KnownIffSomeEntryKnown ==
    \A a \in Artifacts :
        op = Call("history_is_artifact_known", a, FALSE, FALSE) =>
            (ret <=> KnownSomewhere(hist, a))

\* The query answered true on the strength of an older entry: the newest
\* entry for the artifact does not carry Known.
C2_Witness ==
    \E a \in Artifacts :
        /\ op = Call("history_is_artifact_known", a, FALSE, FALSE)
        /\ ret = TRUE
        /\ ~KnownNewest(hist, a)

(* ------------------------------------------------------------------ *)
(* C3  history_add_artifact(known = true)                               *)
(* ------------------------------------------------------------------ *)
\* C3 as claimed: history_add_artifact(a, true, found) appends only when the
\* log holds no entry at all for a; if any entry for a exists, active or
\* Lost, it appends nothing and sets the newest entry's flags to {Known}.
C3_KnownAppendsOnlyWhenNoEntry ==
    [][\A a \in Artifacts, found \in BOOLEAN :
         op' = Call("history_add_artifact", a, TRUE, found) =>
           /\ hist'.next # hist.next => EntriesFor(hist, a) = {}
           /\ EntriesFor(hist, a) # {} =>
                 Reflagged(hist, hist', Newest(hist, a),
                           {HIST_ARTIFACT_KNOWN})]_vars

\* C3 amended: history_add_artifact(a, true, found) appends a new entry,
\* flagged {Known}, exactly when the log holds no active (non-Lost) entry for
\* a and the store is not full at the cap: entries for a that all carry Lost
\* do not prevent the append.  If an active entry for a exists, it appends
\* nothing and sets the flags of the newest entry for a to exactly {Known}.
C3_KnownAppendsWhenNoActiveEntry ==
    [][\A a \in Artifacts, found \in BOOLEAN :
         op' = Call("history_add_artifact", a, TRUE, found) =>
           /\ (~Active(hist, a) /\ ~AtCapAndFull(hist)) =>
                 /\ Appended(hist, hist')
                 /\ hist'.entries[hist'.next].a_idx = a
                 /\ hist'.entries[hist'.next].type = {HIST_ARTIFACT_KNOWN}
           /\ (~Active(hist, a) /\ AtCapAndFull(hist)) => hist' = hist
           /\ Active(hist, a) =>
                 Reflagged(hist, hist', Newest(hist, a),
                           {HIST_ARTIFACT_KNOWN})]_vars

\* A known artifact was logged by appending although the log already held
\* an entry for it: the older entry carries Lost.
C3_Witness ==
    \E a \in Artifacts, found \in BOOLEAN :
        /\ op = Call("history_add_artifact", a, TRUE, found)
        /\ wrote # -1
        /\ Cardinality(EntriesFor(hist, a)) = 2
        /\ hist.entries[wrote + 1].type = {HIST_ARTIFACT_KNOWN}
        /\ \E i \in EntriesFor(hist, a) :
               i # wrote + 1 /\ HIST_ARTIFACT_LOST \in hist.entries[i].type

(* ------------------------------------------------------------------ *)
(* C4  A full store at the cap                                          *)
(* ------------------------------------------------------------------ *)
\* C4 as claimed: whenever a call has to append an entry while the store is
\* full at the cap, it reports failure: history_add_full and history_add,
\* history_add_artifact in both branches, and history_lose_artifact.
C4_CapacityRejectionReported ==
    [][AtCapAndFull(hist) =>
         /\ op'.name \in {"history_add_full", "history_add"} => ret' = FALSE
         /\ \A a \in Artifacts, known \in BOOLEAN, found \in BOOLEAN :
               (op' = Call("history_add_artifact", a, known, found)
                  /\ ~Active(hist, a)) => ret' = FALSE
         /\ \A a \in Artifacts :
               (op' = Call("history_lose_artifact", a, FALSE, FALSE)
                  /\ EntriesFor(hist, a) = {}) => ret' = FALSE]_vars

(* ------------------------------------------------------------------ *)
(* C5  history_add_artifact(known = false) on a logged artifact         *)
(* ------------------------------------------------------------------ *)
\* C5: history_add_artifact(a, false, found), called while some entry for a
\* lacks Lost, returns false and leaves the whole store unchanged, for
\* either value of found.
C5_UnknownOnLoggedRefused ==
    [][\A a \in Artifacts, found \in BOOLEAN :
         (op' = Call("history_add_artifact", a, FALSE, found) /\ Active(hist, a))
           => (ret' = FALSE /\ hist' = hist /\ wrote' = -1)]_vars

\* The call was refused on an artifact that is actively logged.
C5_Witness ==
    \E a \in Artifacts, found \in BOOLEAN :
        /\ op = Call("history_add_artifact", a, FALSE, found)
        /\ ret = FALSE
        /\ Active(hist, a)

(* ------------------------------------------------------------------ *)
(* C6  When an append is rejected                                       *)
(* ------------------------------------------------------------------ *)
\* C6: history_add_full, and history_add through it, returns false iff the
\* store is allocated, full and at the cap of 5000, and then leaves next,
\* length and the entries unchanged; in every other state the append
\* succeeds and next grows by exactly 1.
C6_AppendRejectedIffAtCapAndFull ==
    [][op'.name \in {"history_add_full", "history_add"} =>
         IF AtCapAndFull(hist)
         THEN ret' = FALSE /\ hist' = hist
         ELSE ret' = TRUE /\ Appended(hist, hist')]_vars

\* An append was rejected on a store holding 5000 entries.
C6_Witness ==
    /\ op.name \in {"history_add_full", "history_add"}
    /\ ret = FALSE
    /\ hist.next = HISTORY_MAX
    /\ hist.length = HISTORY_MAX

(* ------------------------------------------------------------------ *)
(* C7  Appends read back in insertion order                             *)
(* ------------------------------------------------------------------ *)
\* C7: starting from the empty store, after any N <= 5000 calls of
\* history_add_full every call has succeeded, history_get_num() = N, and
\* entry i holds the flags, artifact, dungeon level, character level and
\* turn passed to the (i+1)-th call, across all growth steps.
C7_AppendsReadBackInOrder ==
    LET N == Len(passed)
        l == history_get_list(hist)
    IN  /\ op.name = "history_add_full" => ret = TRUE
        /\ history_get_num(hist) = N
        /\ l.ret = N
        /\ \A i \in 1..N :
              /\ l.list[i].type = passed[i].type
              /\ l.list[i].a_idx = passed[i].artifact
              /\ l.list[i].dlev = passed[i].dlev
              /\ l.list[i].clev = passed[i].clev
              /\ l.list[i].turn = passed[i].turnno

\* A run of different calls has crossed the first growth step: the 11th
\* entry is stored and the list has grown to 20 slots.
C7_Witness ==
    /\ op.name = "history_add_full"
    /\ Len(passed) = HISTORY_BIRTH_SIZE + 1
    /\ hist.next = HISTORY_BIRTH_SIZE + 1
    /\ hist.length = HISTORY_BIRTH_SIZE + HISTORY_GROW
    /\ passed[1] # passed[2]
    /\ passed[HISTORY_BIRTH_SIZE] # passed[HISTORY_BIRTH_SIZE + 1]

(* ------------------------------------------------------------------ *)
(* C8  history_know_artifact                                            *)
(* ------------------------------------------------------------------ *)
\* C8: history_know_artifact(a) returns false and changes nothing when no
\* entry is for a; otherwise it returns true, the newest entry for a ends
\* with flags exactly {Known}, and nothing else changes, the count
\* included; history_is_artifact_known(a) is then true.
C8_KnowArtifact ==
    [][\A a \in Artifacts :
         op' = Call("history_know_artifact", a, FALSE, FALSE) =>
           IF EntriesFor(hist, a) = {}
           THEN ret' = FALSE /\ hist' = hist
           ELSE /\ ret' = TRUE
                /\ Reflagged(hist, hist', Newest(hist, a), {HIST_ARTIFACT_KNOWN})
                /\ HIST_ARTIFACT_UNKNOWN \notin hist'.entries[Newest(hist, a)].type
                /\ history_is_artifact_known(hist', a)]_vars

\* history_know_artifact has revealed an entry that history_add_artifact
\* logged as found: it is the artifact's newest and carries Known alone.
C8_Witness ==
    \E a \in Artifacts :
        /\ op = Call("history_know_artifact", a, FALSE, FALSE)
        /\ ret = TRUE
        /\ hist.entries[Newest(hist, a)].type = {HIST_ARTIFACT_KNOWN}
        /\ hist.entries[Newest(hist, a)].event.fmt = "Found %s"
        /\ history_is_artifact_known(hist, a)

(* ------------------------------------------------------------------ *)
(* C9  Found unidentified, then identified                              *)
(* ------------------------------------------------------------------ *)
\* The state right after history_add_artifact(a, false, true) logged the
\* first entry for a.
FirstFind(a) ==
    /\ op = Call("history_add_artifact", a, FALSE, TRUE)
    /\ ret = TRUE
    /\ wrote # -1
    /\ EntriesFor(hist, a) = {wrote + 1}

\* C9: for an artifact a with no entry and room in the store, after
\* history_add_artifact(a, false, true) a is actively logged and not known;
\* a following history_add_artifact(a, true, true) leaves the count
\* unchanged, changes the one entry for a to flags {Known}, changes no other
\* entry, and makes history_is_artifact_known(a) true.
C9_FindThenIdentify ==
    [][\A a \in Artifacts :
         /\ (op' = Call("history_add_artifact", a, FALSE, TRUE)
               /\ EntriesFor(hist, a) = {} /\ ~AtCapAndFull(hist)) =>
                 /\ ret' = TRUE
                 /\ history_is_artifact_logged(hist', a)
                 /\ Active(hist', a)
                 /\ ~history_is_artifact_known(hist', a)
         /\ (FirstFind(a) /\ op' = Call("history_add_artifact", a, TRUE, TRUE)) =>
                 /\ ret' = TRUE
                 /\ hist'.next = hist.next
                 /\ Reflagged(hist, hist', wrote + 1, {HIST_ARTIFACT_KNOWN})
                 /\ history_is_artifact_known(hist', a)]_vars

\* The identification has acted on the entry logged as found: the artifact
\* has one entry, flagged {Known}, and nothing was appended for it.
C9_Witness ==
    \E a \in Artifacts :
        /\ op = Call("history_add_artifact", a, TRUE, TRUE)
        /\ ret = TRUE
        /\ wrote = -1
        /\ Cardinality(EntriesFor(hist, a)) = 1
        /\ hist.entries[Newest(hist, a)].type = {HIST_ARTIFACT_KNOWN}
        /\ hist.entries[Newest(hist, a)].event.fmt = "Found %s"

(* ------------------------------------------------------------------ *)
(* C10  Losing an artifact that has no entry                            *)
(* ------------------------------------------------------------------ *)
\* C10: history_lose_artifact(a) on a log with no entry for a and room in
\* the store appends exactly one entry: its a_idx is a, its flags are
\* exactly {Unknown, Lost}, the count grows by 1 and no earlier entry
\* changes.
C10_LoseUnloggedAppends ==
    [][\A a \in Artifacts :
         (op' = Call("history_lose_artifact", a, FALSE, FALSE)
            /\ EntriesFor(hist, a) = {} /\ ~AtCapAndFull(hist)) =>
           /\ Appended(hist, hist')
           /\ wrote' = hist.next
           /\ hist'.entries[hist'.next].a_idx = a
           /\ hist'.entries[hist'.next].type =
                  {HIST_ARTIFACT_UNKNOWN, HIST_ARTIFACT_LOST}
           /\ EntriesFor(hist', a) = {hist'.next}]_vars

\* The loss of an artifact without history has been logged.
C10_Witness ==
    \E a \in Artifacts :
        /\ FirstLoss(a)
        /\ hist.entries[wrote + 1].type =
               {HIST_ARTIFACT_UNKNOWN, HIST_ARTIFACT_LOST}
        /\ hist.entries[wrote + 1].a_idx = a

(* ------------------------------------------------------------------ *)
(* C11  history_unmask_unknown                                          *)
(* ------------------------------------------------------------------ *)
\* C11: after history_unmask_unknown() no entry carries Unknown, every entry
\* that carried Unknown now carries Known, every other flag (Lost included)
\* of every entry, every other field and the count are unchanged; a second
\* call changes nothing.
C11_UnmaskUnknown ==
    [][op' = Call("history_unmask_unknown", NULL, FALSE, FALSE) =>
         /\ hist'.next = hist.next
         /\ hist'.length = hist.length
         /\ hist'.allocated = hist.allocated
         /\ Len(hist'.entries) = hist.next
         /\ \A i \in 1..hist.next :
               LET old == hist.entries[i]
                   new == hist'.entries[i]
               IN  /\ HIST_ARTIFACT_UNKNOWN \notin new.type
                   /\ HIST_ARTIFACT_UNKNOWN \in old.type =>
                         /\ HIST_ARTIFACT_KNOWN \in new.type
                         /\ new.type \ {HIST_ARTIFACT_KNOWN} =
                                old.type \ {HIST_ARTIFACT_UNKNOWN, HIST_ARTIFACT_KNOWN}
                   /\ HIST_ARTIFACT_UNKNOWN \notin old.type => new.type = old.type
                   /\ new = [old EXCEPT !.type = new.type]
         /\ history_unmask_unknown(hist') = hist'
         /\ op = Call("history_unmask_unknown", NULL, FALSE, FALSE) =>
               hist' = hist]_vars

\* The call has unmasked an artifact that was logged as missed: its entry
\* carries Known and still Lost, and no entry carries Unknown.
C11_Witness ==
    /\ op = Call("history_unmask_unknown", NULL, FALSE, FALSE)
    /\ \E i \in 1..hist.next :
          /\ hist.entries[i].type = {HIST_ARTIFACT_KNOWN, HIST_ARTIFACT_LOST}
          /\ hist.entries[i].event.fmt = "Missed %s"
    /\ \A i \in 1..hist.next : HIST_ARTIFACT_UNKNOWN \notin hist.entries[i].type

(* ------------------------------------------------------------------ *)
(* C12  history_clear                                                   *)
(* ------------------------------------------------------------------ *)
\* C12: history_clear() leaves the store empty from any state: entries
\* released, next = 0, length = 0; a second history_clear() changes nothing;
\* and the next append after a clear succeeds, allocates the list again
\* at the birth capacity 10 and stores its entry at index 0, the count
\* becoming 1.
C12_ClearThenAppend ==
    [][/\ op' = Call("history_clear", NULL, FALSE, FALSE) =>
             /\ hist' = EmptyStore
             /\ ~hist'.allocated /\ hist'.next = 0 /\ hist'.length = 0
             /\ history_get_num(hist') = 0
             /\ op = Call("history_clear", NULL, FALSE, FALSE) => hist' = hist
       /\ (op = Call("history_clear", NULL, FALSE, FALSE)
              /\ op'.name \in {"history_add_full", "history_add",
                                "history_add_artifact", "history_lose_artifact"}) =>
             /\ op'.name \in {"history_add_full", "history_add"} => ret' = TRUE
             /\ hist'.allocated
             /\ hist'.length = HISTORY_BIRTH_SIZE
             /\ hist'.next = 1
             /\ Len(hist'.entries) = 1
             /\ wrote' = 0]_vars

\* history_clear has acted: the list is released and the store is the one
\* the next append allocates again.
C12_Witness ==
    /\ op = Call("history_clear", NULL, FALSE, FALSE)
    /\ hist = EmptyStore
    /\ ~hist.allocated
    /\ history_get_num(hist) = 0

(* ------------------------------------------------------------------ *)
(* C13  Bounds of the store                                             *)
(* ------------------------------------------------------------------ *)
\* C13: in every reachable state 0 <= next <= length <= 5000, the store is
\* unallocated exactly when length = 0, an allocated store has a capacity
\* in {10, 20, ..., 5000}, and no call writes an entry at an index >= length.
C13_StoreWithinCapacity ==
    /\ 0 <= hist.next
    /\ hist.next <= hist.length
    /\ hist.length <= HISTORY_MAX
    /\ ~hist.allocated <=> hist.length = 0
    /\ hist.allocated =>
          \E k \in 1..(HISTORY_MAX \div HISTORY_GROW) : hist.length = HISTORY_GROW * k
    /\ Len(hist.entries) = hist.next
    /\ wrote # -1 => (0 <= wrote /\ wrote < hist.length /\ wrote = hist.next - 1)

\* A call has written the last slot of the birth allocation: the list is
\* full at capacity 10, one call before its first growth.
C13_Witness ==
    /\ wrote = hist.length - 1
    /\ hist.next = hist.length
    /\ hist.length = HISTORY_BIRTH_SIZE
    /\ op.name \in {"history_add_full", "history_add", "history_add_artifact",
                     "history_lose_artifact"}

(* ------------------------------------------------------------------ *)
(* C14  How the capacity moves                                          *)
(* ------------------------------------------------------------------ *)
\* The calls that can append an entry.
Appenders ==
    {"history_add_full", "history_add", "history_add_artifact",
     "history_lose_artifact"}

\* C14: length changes in three ways only: from 0 to 10 on the first append
\* to an unallocated store, up by at most 10 and never past 5000 on an
\* append that finds the store full, and down to 0 on history_clear.  No
\* other call changes it, an append to a store that is not full never
\* changes it, and appending the 11th entry takes it from 10 to a value in
\* 11..20.
C14_CapacityMoves ==
    [][/\ hist'.length # hist.length =>
             \/ /\ ~hist.allocated
                /\ op'.name \in Appenders /\ wrote' = 0
                /\ hist.length = 0 /\ hist'.length = HISTORY_BIRTH_SIZE
             \/ /\ hist.allocated /\ hist.next = hist.length
                /\ op'.name \in Appenders /\ wrote' = hist.next
                /\ hist.length < hist'.length
                /\ hist'.length <= hist.length + HISTORY_GROW
                /\ hist'.length <= HISTORY_MAX
             \/ /\ op'.name = "history_clear"
                /\ hist.allocated
                /\ hist'.length = 0
       /\ op'.name \notin (Appenders \cup {"history_clear"}) =>
             hist'.length = hist.length
       /\ (hist.allocated /\ hist.next < hist.length /\ op'.name # "history_clear") =>
             hist'.length = hist.length
       /\ (hist.next = HISTORY_BIRTH_SIZE /\ hist.length = HISTORY_BIRTH_SIZE
              /\ wrote' # -1) =>
             /\ hist'.next = HISTORY_BIRTH_SIZE + 1
             /\ hist'.length \in
                    (HISTORY_BIRTH_SIZE + 1)..(HISTORY_BIRTH_SIZE + HISTORY_GROW)]_vars

\* The 11th entry has been appended: the call found the list full at
\* capacity 10 and grew it to 20.
C14_Witness ==
    /\ op.name \in Appenders
    /\ wrote = HISTORY_BIRTH_SIZE
    /\ hist.next = HISTORY_BIRTH_SIZE + 1
    /\ hist.length = HISTORY_BIRTH_SIZE + HISTORY_GROW

(* ------------------------------------------------------------------ *)
(* C15  Entries are never removed, reordered or rewritten               *)
(* ------------------------------------------------------------------ *)
\* The calls that may change the flags of an entry.
FlagSetters ==
    {"history_know_artifact", "history_lose_artifact", "history_add_artifact",
     "history_unmask_unknown"}

\* C15: across every step other than history_clear the count never
\* decreases and the entry at every index below the old count keeps its
\* artifact, dungeon level, character level, turn and text; only its flags
\* may change, and only in history_know_artifact, history_lose_artifact,
\* history_add_artifact or history_unmask_unknown.
C15_EntriesKept ==
    [][op'.name # "history_clear" =>
         /\ hist'.next >= hist.next
         /\ Len(hist'.entries) = hist'.next
         /\ \/ SubSeq(hist'.entries, 1, hist.next) = hist.entries
            \/ /\ op'.name \in FlagSetters
               /\ \A i \in 1..hist.next :
                     LET old == hist.entries[i]
                         new == hist'.entries[i]
                     IN  /\ new.a_idx = old.a_idx
                         /\ new.dlev = old.dlev
                         /\ new.clev = old.clev
                         /\ new.turn = old.turn
                         /\ new.event = old.event]_vars

\* history_know_artifact has changed the flags, and nothing else, of an
\* entry logged as missed, with other entries before and after it in place.
C15_Witness ==
    \E a \in Artifacts :
        /\ op = Call("history_know_artifact", a, FALSE, FALSE)
        /\ ret = TRUE
        /\ hist.next >= 2
        /\ hist.entries[Newest(hist, a)].type = {HIST_ARTIFACT_KNOWN}
        /\ hist.entries[Newest(hist, a)].event.fmt = "Missed %s"
        /\ hist.entries[Newest(hist, a)].turn =
               player([hist EXCEPT !.next = Newest(hist, a) - 1]).total_energy \div 100

(* ------------------------------------------------------------------ *)
(* C16  Finding a lost artifact again                                   *)
(* ------------------------------------------------------------------ *)
\* C16: in a state where the artifact has entries and every one of them
\* carries Lost, and the store has room, history_add_artifact(a, false, true)
\* returns true and appends a new entry for a with flags exactly {Unknown};
\* afterwards a is actively logged, and the earlier entries for a are
\* unchanged and still carry Lost.
C16_RefindLostArtifact ==
    [][\A a \in Artifacts :
         (op' = Call("history_add_artifact", a, FALSE, TRUE)
            /\ EntriesFor(hist, a) # {} /\ ~Active(hist, a)
            /\ ~AtCapAndFull(hist)) =>
           /\ ret' = TRUE
           /\ Appended(hist, hist')
           /\ wrote' = hist.next
           /\ hist'.entries[hist'.next].a_idx = a
           /\ hist'.entries[hist'.next].type = {HIST_ARTIFACT_UNKNOWN}
           /\ history_is_artifact_logged(hist', a)
           /\ Active(hist', a)
           /\ \A i \in EntriesFor(hist, a) :
                 /\ hist'.entries[i] = hist.entries[i]
                 /\ HIST_ARTIFACT_LOST \in hist'.entries[i].type]_vars

\* A lost artifact has been found again: its new entry carries Unknown
\* alone and its older entry still carries Lost.
C16_Witness ==
    \E a \in Artifacts :
        /\ op = Call("history_add_artifact", a, FALSE, TRUE)
        /\ ret = TRUE
        /\ wrote = hist.next - 1
        /\ hist.entries[wrote + 1].type = {HIST_ARTIFACT_UNKNOWN}
        /\ hist.entries[wrote + 1].event.fmt = "Found %s"
        /\ \E i \in EntriesFor(hist, a) :
               i < wrote + 1 /\ HIST_ARTIFACT_LOST \in hist.entries[i].type
        /\ \A i \in EntriesFor(hist, a) :
               i < wrote + 1 => HIST_ARTIFACT_LOST \in hist.entries[i].type

(* ------------------------------------------------------------------ *)
(* C17  history_lose_artifact on an actively logged artifact            *)
(* ------------------------------------------------------------------ *)
\* The most recently appended entry for a that does not carry Lost.
NewestActive(h, a) ==
    LET act == {i \in EntriesFor(h, a) : HIST_ARTIFACT_LOST \notin h.entries[i].type}
    IN  CHOOSE i \in act : \A j \in act : j <= i

\* C17 as claimed: history_lose_artifact(a), called while a has an active
\* (non-Lost) entry, returns true, adds Lost to the latest active entry for
\* a, keeping the flags it had, and changes neither the count nor any other
\* entry.
C17_LoseMarksLatestActive ==
    [][\A a \in Artifacts :
         (op' = Call("history_lose_artifact", a, FALSE, FALSE) /\ Active(hist, a)) =>
           /\ ret' = TRUE
           /\ Reflagged(hist, hist', NewestActive(hist, a),
                        hist.entries[NewestActive(hist, a)].type
                          \cup {HIST_ARTIFACT_LOST})]_vars

\* C17 amended: history_lose_artifact(a), called while a has an active
\* entry, returns true and adds Lost to the newest entry for a, keeping the
\* flags it had; the count and every other entry are unchanged.  The newest
\* entry is the latest active one unless it already carries Lost: then the
\* call changes nothing and the older active entry stays active.
C17_LoseMarksNewestEntry ==
    [][\A a \in Artifacts :
         (op' = Call("history_lose_artifact", a, FALSE, FALSE) /\ Active(hist, a)) =>
           LET n == Newest(hist, a)
           IN  /\ ret' = TRUE
               /\ wrote' = -1
               /\ hist'.next = hist.next
               /\ Reflagged(hist, hist', n,
                            hist.entries[n].type \cup {HIST_ARTIFACT_LOST})
               /\ IF HIST_ARTIFACT_LOST \in hist.entries[n].type
                  THEN /\ n # NewestActive(hist, a)
                       /\ hist' = hist
                       /\ Active(hist', a)
                  ELSE /\ n = NewestActive(hist, a)
                       /\ hist'.entries[n].type \ {HIST_ARTIFACT_LOST} =
                              hist.entries[n].type]_vars

\* history_lose_artifact returned true on an artifact whose newest entry
\* carries Lost while an older entry for it is still active.
C17_Witness ==
    \E a \in Artifacts :
        /\ op = Call("history_lose_artifact", a, FALSE, FALSE)
        /\ ret = TRUE
        /\ Active(hist, a)
        /\ HIST_ARTIFACT_LOST \in hist.entries[Newest(hist, a)].type
        /\ NewestActive(hist, a) < Newest(hist, a)

(* ------------------------------------------------------------------ *)
(* C18  At most one active entry, and it is the newest                  *)
(* ------------------------------------------------------------------ *)
\* C18: in every state reached from the empty store by history_add_artifact,
\* history_lose_artifact, history_unmask_unknown and history_clear alone,
\* each artifact has at most one entry without Lost, and such an entry is
\* the most recently appended entry for the artifact: the scan of
\* history_know_artifact and history_lose_artifact, which takes the newest
\* entry, and the scan of history_is_artifact_logged, which takes the
\* newest entry without Lost, stop at the same entry.
C18_OneActiveEntryNewest ==
    \A a \in Artifacts :
        LET act == {i \in EntriesFor(hist, a) :
                       HIST_ARTIFACT_LOST \notin hist.entries[i].type}
        IN  /\ Cardinality(act) <= 1
            /\ act # {} => act = {Newest(hist, a)}
            /\ history_is_artifact_logged(hist, a) <=> act # {}
            /\ history_is_artifact_logged(hist, a) =>
                  LatestEntryOf(hist, a) = NewestActive(hist, a)

\* An artifact was lost and found again: it has an active entry, which is
\* its newest, after an entry that carries Lost.
C18_Witness ==
    \E a \in Artifacts :
        /\ op.name \in {"history_add_artifact", "history_lose_artifact",
                         "history_unmask_unknown"}
        /\ Cardinality(EntriesFor(hist, a)) >= 2
        /\ Active(hist, a)
        /\ NewestActive(hist, a) = Newest(hist, a)
        /\ \E i \in EntriesFor(hist, a) :
               i < Newest(hist, a) /\ HIST_ARTIFACT_LOST \in hist.entries[i].type

(* ------------------------------------------------------------------ *)
(* C19  Knowledge of an artifact is stable                              *)
(* ------------------------------------------------------------------ *)
\* C19: once history_is_artifact_known(a) is true it stays true after every
\* call other than history_clear: appends by history_add and
\* history_add_full, history_add_artifact and history_lose_artifact for any
\* artifact, history_unmask_unknown; losing a and logging it again as
\* unknown does not make it unknown again.
C19_KnownStaysKnown ==
    [][\A a \in Artifacts :
         (history_is_artifact_known(hist, a) /\ op'.name # "history_clear") =>
           /\ history_is_artifact_known(hist', a)
           /\ KnownSomewhere(hist', a)]_vars

\* A known artifact was lost and has been logged again as unknown: its
\* newest entry carries Unknown and the artifact is still known, by an
\* older entry that carries Known and Lost.
C19_Witness ==
    \E a \in Artifacts, found \in BOOLEAN :
        /\ op = Call("history_add_artifact", a, FALSE, found)
        /\ ret = TRUE
        /\ wrote = hist.next - 1
        /\ hist.entries[wrote + 1].a_idx = a
        /\ HIST_ARTIFACT_UNKNOWN \in hist.entries[wrote + 1].type
        /\ HIST_ARTIFACT_KNOWN \notin hist.entries[wrote + 1].type
        /\ history_is_artifact_known(hist, a)
        /\ \E i \in EntriesFor(hist, a) :
               {HIST_ARTIFACT_KNOWN, HIST_ARTIFACT_LOST} \subseteq hist.entries[i].type

(* ------------------------------------------------------------------ *)
(* C20  Flags of the entries of a tracked log                           *)
(* ------------------------------------------------------------------ *)
\* C20: in every state reached from the empty store by history_add_artifact,
\* history_lose_artifact, history_unmask_unknown and history_clear alone,
\* every entry has a non-zero artifact index and carries exactly one of
\* Known and Unknown, with or without Lost, and no other flag.
C20_FlagsWellFormed ==
    \A i \in 1..hist.next :
        LET e == hist.entries[i]
        IN  /\ e.a_idx # 0
            /\ e.a_idx \in Artifacts
            /\ e.type \subseteq {HIST_ARTIFACT_KNOWN, HIST_ARTIFACT_UNKNOWN,
                                   HIST_ARTIFACT_LOST}
            /\ (HIST_ARTIFACT_KNOWN \in e.type) # (HIST_ARTIFACT_UNKNOWN \in e.type)

\* The log holds three kinds of entries at once: one of a known artifact
\* that was lost (Known and Lost), one logged as known or revealed (Known
\* alone), and one logged as unknown (Unknown, with or without Lost).
C20_Witness ==
    /\ hist.next >= 3
    /\ \E i, j, k \in 1..hist.next :
          /\ hist.entries[i].type = {HIST_ARTIFACT_KNOWN, HIST_ARTIFACT_LOST}
          /\ hist.entries[j].type = {HIST_ARTIFACT_KNOWN}
          /\ HIST_ARTIFACT_UNKNOWN \in hist.entries[k].type
    /\ \A i \in 1..hist.next : hist.entries[i].a_idx # 0

====
